---- MODULE Spec2Model ----
(***************************************************************************)
(* The chat UI of PolyU-Video-Agent as a state machine.                    *)
(*                                                                         *)
(* ChatPage (src/unnamed/part_001) holds the chat list and the selected    *)
(* chat, Sidebar (src/frontend/src/components/Sidebar.tsx) deletes chats,  *)
(* ChatPanel (src/frontend/src/InitPage.tsx, lines 188-461) holds the      *)
(* message thread.  Every handler is one action; an async handler is two:  *)
(* the part before its await (the request is issued) and the part after it *)
(* (the response is delivered).  A request in flight keeps the values its  *)
(* closure captured when the handler started.  The backend handles a       *)
(* request when it is issued; its response is delivered after an arbitrary *)
(* delay, in any order.                                                    *)
(***************************************************************************)
EXTENDS Integers, Sequences, FiniteSets, Bags, TLC

VARIABLES
  \* ChatPage
  currentChatId, availableChats, backendStatus, route,
  \* the browser: the alert box that is open, a navigation under way
  alert, reloading,
  \* ChatPanel
  messages, inputText, isLoading,
  \* requests in flight, one bag per endpoint
  listReqs, newReqs, delChatReqs, fetchReqs, sendReqs, delMsgReqs,
  \* the backend
  srvChats, srvMsgs, nextChat, nextMsg,
  \* Date.now()
  now,
  \* the user's gestures so far, those among them that changed the chat
  \* list, and the requests that failed on their way
  gestures, chatEdits, failures,
  \* the video viewers, a record of the parts defined below
  viewer,
  \* a call of convertHttpResponseToMessage: its argument and its outcome
  conversion

\* the parts of viewer: PlayGround, LectureVideoAnalysis with its
\* LectureTranscripts and LectureSections, the <video> elements, the
\* viewers' requests in flight and what the backend holds for videoId
playGround == viewer.playGround
lecture == viewer.lecture
lectureTranscripts == viewer.lectureTranscripts
lectureSections == viewer.lectureSections
video == viewer.video
viewerReqs == viewer.viewerReqs
viewerSrv == viewer.viewerSrv

\* the parts of conversion
httpResponse == conversion.httpResponse
convertedMessage == conversion.convertedMessage

pageVars == <<currentChatId, availableChats, backendStatus, route>>
dialogVars == <<alert, reloading>>
panelVars == <<messages, inputText, isLoading>>
netVars == <<listReqs, newReqs, delChatReqs, fetchReqs, sendReqs, delMsgReqs>>
srvVars == <<srvChats, srvMsgs, nextChat, nextMsg>>
budgetVars == <<gestures, chatEdits, failures>>
viewerVars == <<viewer>>
convertVars == <<conversion>>
chatVars == <<pageVars, dialogVars, panelVars, netVars, srvVars, now,
              budgetVars>>
restVars == <<viewerVars, convertVars>>
vars == <<chatVars, restVars>>

----------------------------------------------------------------------------
\* Bounds of the model.

\* gestures of the user over a run: selecting a chat, New Chat, a delete
\* button, typing, sending
MaxGestures == 2
\* those among them that change the chat list: New Chat, a confirmed delete
MaxChatEdits == 1
\* largest value of the millisecond clock
MaxTime == 1
\* requests over a run that fail although the backend could serve them
MaxFailures == 2
\* longest thinking_process string given to convertHttpResponseToMessage
MaxJsonLen == 5

----------------------------------------------------------------------------
\* Values.

\* currentChatId === null, and the route "/"
NULL == 0

\* the divisor of the onClick handlers of the transcript and the sections
MsPerSecond == 1000

\* the chats the backend holds when the page is first opened
InitSrvChats == <<1, 2>>

\* the routes the page is first opened at: "/" or "/chat/1"
InitRoutes == {NULL, 1}

\* every New Chat gesture creates one chat
MaxChat == Len(InitSrvChats) + MaxChatEdits
ChatIds == 1..MaxChat

\* what the client's await gets: response.ok, !response.ok, or fetch()
\* rejects
Outcomes == {"ok", "notok", "neterr"}

\* the backend's answer: OK when it holds what the request names
Answer(exists) == IF exists THEN "ok" ELSE "notok"

\* the texts the textarea can hold: empty, whitespace only, a word
InputTexts == {<<>>, <<" ">>, <<"h">>}

\* the fixed texts of the code
BotReply == <<"r">>
FetchFailedText == <<"W">>
SendFailedText == <<"S">>

DefaultBackendStatus == [ok |-> TRUE, ready |-> TRUE]
NetworkFailuireBackendStatus == [ok |-> FALSE, ready |-> FALSE]

\* message ids: assigned by the backend, or made by the client from Date.now()
ServerId(n) == [k |-> "SRV", n |-> n]
TempId(t) == [k |-> "FAKEID-TEMP-MESSAGE", n |-> t]
FailedId(t) == [k |-> "FAKEID-MESSAGE-FAILED", n |-> t]
IsFakeId(id) == id.k \in {"FAKEID-TEMP-MESSAGE", "FAKEID-MESSAGE-FAILED"}

\* a Message; chat is the chat whose request produced it (not a field of the
\* code's Message: it records the session the message belongs to)
Message(id, sender, content, chat) ==
  [id |-> id, sender |-> sender, content |-> content, chat |-> chat]

\* the messages the backend holds when the page is first opened
InitSrvMsgs == [c \in ChatIds |->
  IF c = 1 THEN <<Message(ServerId(1), "bot", BotReply, 1)>> ELSE <<>>]
InitNextMsg == Len(InitSrvMsgs[1]) + 1

----------------------------------------------------------------------------
\* Helpers.

Range(s) == {s[i] : i \in 1..Len(s)}

RECURSIVE Filter(_, _)
\* Array.prototype.filter with the test "id differs from id"
Filter(s, id) ==
  IF s = <<>> THEN <<>>
  ELSE IF Head(s).id # id THEN <<Head(s)>> \o Filter(Tail(s), id)
       ELSE Filter(Tail(s), id)

RECURSIVE FilterChat(_, _)
\* prev.filter(chat => chat.id !== chatId)
FilterChat(s, c) ==
  IF s = <<>> THEN <<>>
  ELSE IF Head(s) # c THEN <<Head(s)>> \o FilterChat(Tail(s), c)
       ELSE FilterChat(Tail(s), c)

RECURSIVE TrimStart(_)
TrimStart(s) ==
  IF s # <<>> /\ Head(s) = " " THEN TrimStart(Tail(s)) ELSE s

RECURSIVE TrimEnd(_)
TrimEnd(s) ==
  IF s # <<>> /\ s[Len(s)] = " " THEN TrimEnd(SubSeq(s, 1, Len(s) - 1)) ELSE s

\* String.prototype.trim
Trim(s) == TrimEnd(TrimStart(s))

Put(bag, r) == bag (+) SetToBag({r})
Take(bag, r) == bag (-) SetToBag({r})

ChatExists(c) == c \in Range(srvChats)

\* a gesture of the user
Gesture == gestures < MaxGestures /\ gestures' = gestures + 1

\* a gesture that changes the chat list
ChatEdit == chatEdits < MaxChatEdits /\ chatEdits' = chatEdits + 1

----------------------------------------------------------------------------
\* The requests, as the backend answers them when they are issued.

\* GET /api/chats/list, issued by the effect of a render whose currentChatId
\* is cur
ListRequest(cur) == [cur |-> cur, srv |-> "ok", data |-> srvChats]

\* GET /api/chat/<c>/messages
FetchRequest(c) ==
  [chat |-> c, srv |-> Answer(ChatExists(c)),
   data |-> IF ChatExists(c) THEN srvMsgs[c] ELSE <<>>]

\* the response of request r reaches its handler with outcome o: the
\* backend's answer, or a failure on the way (a 5xx answer, a lost request
\* or response)
Delivered(r, o) ==
  \/ o = r.srv /\ failures' = failures
  \/ /\ o \in Outcomes \ {"ok", r.srv}
     /\ failures < MaxFailures
     /\ failures' = failures + 1

\* no alert box is open (an open box blocks the page), and the page is not
\* being left: the navigation started by window.location.href = "/" takes
\* over before another handler runs
NoModal == alert = "none" /\ ~reloading

----------------------------------------------------------------------------
\* The two effects that depend on [currentChatId].

\* ChatPage's effect: fetchChatHistory()
ChatPageEffect(new, lr) == listReqs' = Put(lr, ListRequest(new))

\* a variant of ChatPanelEffect that calls fetchMessages() twice
ChatPanelEffectTwice(new, fr, ms) ==
  IF new # NULL
  THEN /\ fetchReqs' = Put(Put(fr, FetchRequest(new)), FetchRequest(new))
       /\ messages' = ms
  ELSE /\ fetchReqs' = fr
       /\ messages' = <<>>

\* ChatPanel's effect: fetchMessages(), or setMessages([]) when no chat is
\* selected
ChatPanelEffect(new, fr, ms) ==
  IF new # NULL
  THEN /\ fetchReqs' = Put(fr, FetchRequest(new))
       /\ messages' = ms
  ELSE /\ fetchReqs' = fr
       /\ messages' = <<>>

\* setCurrentChatId(new) and the render that follows it: lr, fr and ms are
\* listReqs, fetchReqs and messages as the handler leaves them; the effects
\* run only when the value changed
SetCurrentChatId(new, lr, fr, ms) ==
  /\ currentChatId' = new
  /\ IF new # currentChatId
     THEN /\ ChatPageEffect(new, lr)
          /\ ChatPanelEffect(new, fr, ms)
     ELSE listReqs' = lr /\ fetchReqs' = fr /\ messages' = ms

----------------------------------------------------------------------------
\* ChatPage and Sidebar.

\* handleSelectChat
HandleSelectChat(c) ==
  /\ NoModal
  /\ Gesture
  /\ c \in Range(availableChats)
  /\ SetCurrentChatId(c, listReqs, fetchReqs, messages)
  /\ route' = c
  /\ UNCHANGED <<availableChats, backendStatus, dialogVars, inputText,
                 isLoading, newReqs, delChatReqs, sendReqs, delMsgReqs,
                 srvVars, now, failures, chatEdits,
                 restVars>>

\* a variant of FetchChatHistoryDone whose catch fetches the list again
FetchChatHistoryDoneRetrying(r, o) ==
  /\ NoModal
  /\ r \in BagToSet(listReqs) /\ Delivered(r, o)
  /\ IF o = "ok"
     THEN /\ availableChats' = r.data
          /\ backendStatus' = backendStatus
          /\ IF Len(r.data) > 0 /\ r.cur = NULL
             THEN SetCurrentChatId(r.data[1], Take(listReqs, r), fetchReqs,
                                   messages)
             ELSE /\ listReqs' = Take(listReqs, r)
                  /\ UNCHANGED <<currentChatId, fetchReqs, messages>>
     ELSE /\ backendStatus' = NetworkFailuireBackendStatus
          /\ availableChats' = <<>>
          /\ listReqs' = Put(Take(listReqs, r), ListRequest(r.cur))
          /\ UNCHANGED <<currentChatId, fetchReqs, messages>>
  /\ UNCHANGED <<route, dialogVars, inputText, isLoading, newReqs,
                 delChatReqs, sendReqs, delMsgReqs, srvVars, now, gestures, chatEdits,
                 restVars>>

\* fetchChatHistory after its await
FetchChatHistoryDone(r, o) ==
  /\ NoModal
  /\ r \in BagToSet(listReqs) /\ Delivered(r, o)
  /\ IF o = "ok"
     THEN /\ availableChats' = r.data
          /\ backendStatus' = backendStatus
          /\ IF Len(r.data) > 0 /\ r.cur = NULL
             THEN SetCurrentChatId(r.data[1], Take(listReqs, r), fetchReqs,
                                   messages)
             ELSE /\ listReqs' = Take(listReqs, r)
                  /\ UNCHANGED <<currentChatId, fetchReqs, messages>>
     ELSE /\ backendStatus' = NetworkFailuireBackendStatus
          /\ availableChats' = <<>>
          /\ listReqs' = Take(listReqs, r)
          /\ UNCHANGED <<currentChatId, fetchReqs, messages>>
  /\ UNCHANGED <<route, dialogVars, inputText, isLoading, newReqs,
                 delChatReqs, sendReqs, delMsgReqs, srvVars, now, gestures, chatEdits,
                 restVars>>

\* handleNewChat up to its await: POST /api/chats/new
HandleNewChat ==
  /\ NoModal
  /\ Gesture
  /\ ChatEdit
  /\ newReqs' = Put(newReqs, [srv |-> "ok", id |-> nextChat])
  /\ srvChats' = <<nextChat>> \o srvChats
  /\ nextChat' = nextChat + 1
  /\ UNCHANGED <<pageVars, dialogVars, panelVars, listReqs, delChatReqs,
                 fetchReqs, sendReqs, delMsgReqs, srvMsgs, nextMsg, now, failures,
                 restVars>>

\* a variant of WithNewChat that puts the new chat last
WithNewChatLast(prev, id) == Append(prev, id)

\* setAvailableChats(prev => [newChat, ...prev])
WithNewChat(prev, id) == <<id>> \o prev

\* handleNewChat after its await
HandleNewChatDone(r, o) ==
  /\ NoModal
  /\ r \in BagToSet(newReqs) /\ Delivered(r, o)
  /\ newReqs' = Take(newReqs, r)
  /\ IF o = "ok"
     THEN /\ availableChats' = WithNewChat(availableChats, r.id)
          /\ SetCurrentChatId(r.id, listReqs, fetchReqs, messages)
          /\ route' = r.id
     ELSE UNCHANGED <<availableChats, currentChatId, route, listReqs,
                      fetchReqs, messages>>
  /\ UNCHANGED <<backendStatus, dialogVars, inputText, isLoading,
                 delChatReqs, sendReqs, delMsgReqs, srvVars, now, gestures, chatEdits,
                 restVars>>

\* the request Sidebar.handleDeleteClick issues for chat c: it keeps
\* onDeleteChat, the handleDeleteChat of the render it was clicked in, which
\* closes over that render's currentChatId
DeleteChatRequest(c) ==
  [chatId |-> c, cur |-> currentChatId, srv |-> Answer(ChatExists(c))]

\* Sidebar.handleDeleteClick up to its await; window.confirm blocks the page
\* until the user answers, so the answer is part of the step.  With the
\* answer OK: DELETE /api/chat/<c>
HandleDeleteClick(c, confirmed) ==
  /\ NoModal
  /\ Gesture
  /\ c \in Range(availableChats)
  /\ IF confirmed
     THEN /\ ChatEdit
          /\ delChatReqs' = Put(delChatReqs, DeleteChatRequest(c))
          /\ srvChats' = FilterChat(srvChats, c)
          /\ srvMsgs' = [srvMsgs EXCEPT ![c] = <<>>]
     ELSE UNCHANGED <<delChatReqs, srvChats, srvMsgs, chatEdits>>
  /\ UNCHANGED <<pageVars, dialogVars, panelVars, listReqs, newReqs,
                 fetchReqs, sendReqs, delMsgReqs, nextChat, nextMsg, now,
                 failures,
                 restVars>>

\* ChatPage.handleDeleteChat, as closed over a render whose currentChatId
\* was cur
HandleDeleteChat(chatId, cur) ==
  /\ availableChats' = FilterChat(availableChats, chatId)
  /\ IF cur = chatId
     THEN /\ SetCurrentChatId(NULL, listReqs, fetchReqs, messages)
          /\ route' = NULL
     ELSE UNCHANGED <<currentChatId, route, listReqs, fetchReqs, messages>>

\* a variant of HandleDeleteClickDone that calls onDeleteChat before it
\* looks at response.ok
HandleDeleteClickDoneUnchecked(r, o) ==
  /\ NoModal
  /\ r \in BagToSet(delChatReqs) /\ Delivered(r, o)
  /\ delChatReqs' = Take(delChatReqs, r)
  /\ HandleDeleteChat(r.chatId, r.cur)
  /\ alert' = IF o = "ok" THEN alert ELSE "chat"
  /\ UNCHANGED <<backendStatus, reloading, inputText, isLoading,
                 newReqs, sendReqs, delMsgReqs, srvVars, now, gestures,
                 chatEdits,
                 restVars>>

\* Sidebar.handleDeleteClick after its await
HandleDeleteClickDone(r, o) ==
  /\ NoModal
  /\ r \in BagToSet(delChatReqs) /\ Delivered(r, o)
  /\ delChatReqs' = Take(delChatReqs, r)
  /\ IF o = "ok"
     THEN /\ HandleDeleteChat(r.chatId, r.cur)
          /\ alert' = alert
     ELSE /\ alert' = "chat"
          /\ UNCHANGED <<availableChats, currentChatId, route, listReqs,
                         fetchReqs, messages>>
  /\ UNCHANGED <<backendStatus, reloading, inputText, isLoading,
                 newReqs, sendReqs, delMsgReqs, srvVars, now, gestures, chatEdits,
                 restVars>>

\* the user closes the alert box
DismissAlert ==
  /\ alert # "none" /\ ~reloading
  /\ alert' = "none"
  /\ UNCHANGED <<pageVars, reloading, panelVars, netVars,
                 srvVars, now, gestures, failures, chatEdits,
                 restVars>>

----------------------------------------------------------------------------
\* The video viewers: PlayGround (src/frontend/src/InitPage.tsx, lines
\* 97-185) and LectureVideoAnalysis (src/unnamed/part_000) with
\* LectureTranscripts and LectureSections, each mounted for one videoId.

\* a JavaScript number n, held in thousandths
Num(n) == n * MsPerSecond

\* x / 1000 for a number x held in thousandths
DivideBy1000(x) == x \div MsPerSecond

\* what the backend can hold for the video: thumbnails (time_second in
\* seconds), the sentences of the transcript (begin_time in milliseconds),
\* sections (begin_time in seconds)
ThumbnailSets ==
  {<<>>, <<[id |-> 1, time_second |-> 0], [id |-> 2, time_second |-> 60]>>}
SentenceSets ==
  {<<>>, <<[sentence_id |-> 1, begin_time |-> 0],
           [sentence_id |-> 2, begin_time |-> 1500]>>}

\* the mock data of fetchSections
MockSections ==
  <<[id |-> 1, begin_time |-> 0], [id |-> 2, begin_time |-> 300],
    [id |-> 3, begin_time |-> 900], [id |-> 4, begin_time |-> 1500]>>

SectionSets ==
  {<<>>, MockSections,
   <<[id |-> 1, begin_time |-> 0], [id |-> 2, begin_time |-> 120]>>}

VideoUrl == "video_url"

\* the awaits of the viewers' effects
ViewerRequests ==
  {"fetchData", "fetchVideoSource", "fetchSlidesThumbnails",
   "fetchTranscripts", "fetchSections"}

\* VideoData; thumbnailsIsArray is FALSE when the thumbnails field holds the
\* body of an error response instead of a list
VideoData(video_url, thumbnails, thumbnailsIsArray) ==
  [present |-> TRUE, video_url |-> video_url, thumbnails |-> thumbnails,
   thumbnailsIsArray |-> thumbnailsIsArray]

\* useState<VideoData | null>(null)
NoVideoData ==
  [present |-> FALSE, video_url |-> "", thumbnails |-> <<>>,
   thumbnailsIsArray |-> FALSE]

\* the useState values of the components, and the two <video> elements
PlayGroundInitial ==
  [videoData |-> NoVideoData, loading |-> TRUE, errorShown |-> FALSE]
LectureInitial == [thumbnails |-> <<>>, videoUrl |-> ""]
LectureTranscriptsInitial ==
  [transcriptData |-> [present |-> FALSE, sentences |-> <<>>],
   loading |-> TRUE]
LectureSectionsInitial ==
  [sections |-> [present |-> FALSE, items |-> <<>>], loading |-> TRUE]
VideoInitial ==
  [playGround |-> [currentTime |-> 0, paused |-> TRUE, metadata |-> FALSE],
   lecture |-> [currentTime |-> 0, paused |-> TRUE]]

\* the body of a response: of an OK response the data, of a non-OK response
\* an error object without the fields asked for
VideoBody(o) == IF o = "ok" THEN viewerSrv.video_url ELSE ""
ThumbnailsBody(o) == IF o = "ok" THEN viewerSrv.thumbnails ELSE <<>>

\* PlayGround.fetchData from its await to setVideoData: ov and ot are the
\* outcomes of the two fetches, jv and jt tell whether the body of a non-OK
\* response is JSON.  Promise.all rejects when a fetch rejects, .json()
\* rejects on a body that is not JSON; response.ok is not looked at
PlayGroundFetched(ov, ot, jv, jt) ==
  IF \/ ov = "neterr" \/ ot = "neterr"
     \/ (ov = "notok" /\ ~jv) \/ (ot = "notok" /\ ~jt)
  THEN [caught |-> TRUE, videoData |-> playGround.videoData]
  ELSE [caught |-> FALSE,
        videoData |-> VideoData(VideoBody(ov), ThumbnailsBody(ot), ot = "ok")]

\* PlayGround.fetchData after its await
PlayGroundFetchDataDone(ov, ot, jv, jt) ==
  /\ "fetchData" \in viewerReqs
  /\ (ov # "notok" => jv) /\ (ot # "notok" => jt)
  /\ LET f == PlayGroundFetched(ov, ot, jv, jt)
     IN viewer' = [viewer EXCEPT
          !.viewerReqs = @ \ {"fetchData"},
          !.playGround = [videoData |-> f.videoData, loading |-> FALSE,
                          errorShown |-> f.caught]]
  /\ UNCHANGED <<chatVars, convertVars>>

\* PlayGround's <video> is rendered with a source
PlayGroundVideoRendered ==
  /\ ~playGround.loading
  /\ playGround.videoData.present
  /\ playGround.videoData.video_url # ""

\* the <video> of PlayGround has loaded its metadata: duration is a number
PlayGroundLoadedMetadata ==
  /\ PlayGroundVideoRendered
  /\ ~video.playGround.metadata
  /\ viewer' = [viewer EXCEPT !.video.playGround.metadata = TRUE]
  /\ UNCHANGED <<chatVars, convertVars>>

\* PlayGround.handleSeek(time), called by a click on the i-th thumbnail
PlayGroundHandleSeek(i) ==
  /\ ~playGround.loading
  /\ playGround.videoData.present /\ playGround.videoData.thumbnailsIsArray
  /\ i \in 1..Len(playGround.videoData.thumbnails)
  /\ IF PlayGroundVideoRendered /\ video.playGround.metadata
     THEN viewer' = [viewer EXCEPT
            !.video.playGround.currentTime =
               Num(playGround.videoData.thumbnails[i].time_second),
            !.video.playGround.paused = FALSE]
     ELSE viewer' = viewer
  /\ UNCHANGED <<chatVars, convertVars>>

\* fetchVideoSource after its await
FetchVideoSourceDone(o) ==
  /\ "fetchVideoSource" \in viewerReqs
  /\ viewer' = [viewer EXCEPT
       !.viewerReqs = @ \ {"fetchVideoSource"},
       !.lecture.videoUrl = IF o = "ok" THEN viewerSrv.video_url ELSE @]
  /\ UNCHANGED <<chatVars, convertVars>>

\* transformResponse of fetchSlidesThumbnails
transformResponse(apiData) ==
  [i \in 1..Len(apiData) |->
     [id |-> apiData[i].id, timeSecond |-> apiData[i].time_second]]

\* fetchSlidesThumbnails after its await
FetchSlidesThumbnailsDone(o) ==
  /\ "fetchSlidesThumbnails" \in viewerReqs
  /\ viewer' = [viewer EXCEPT
       !.viewerReqs = @ \ {"fetchSlidesThumbnails"},
       !.lecture.thumbnails =
          IF o = "ok" THEN transformResponse(viewerSrv.thumbnails) ELSE @]
  /\ UNCHANGED <<chatVars, convertVars>>

\* fetchTranscripts after its await
FetchTranscriptsDone(o) ==
  /\ "fetchTranscripts" \in viewerReqs
  /\ viewer' = [viewer EXCEPT
       !.viewerReqs = @ \ {"fetchTranscripts"},
       !.lectureTranscripts =
          IF o = "ok"
          THEN [transcriptData |->
                  [present |-> TRUE, sentences |-> viewerSrv.sentences],
                loading |-> FALSE]
          ELSE @]
  /\ UNCHANGED <<chatVars, convertVars>>

\* const data : Section[] of fetchSections
SectionsData == MockSections

\* fetchSections after its await: response.ok is not looked at
FetchSectionsDone(o) ==
  /\ "fetchSections" \in viewerReqs
  /\ viewer' = [viewer EXCEPT
       !.viewerReqs = @ \ {"fetchSections"},
       !.lectureSections =
          IF o # "neterr"
          THEN [sections |-> [present |-> TRUE, items |-> SectionsData],
                loading |-> FALSE]
          ELSE @]
  /\ UNCHANGED <<chatVars, convertVars>>

\* jumpVideoTime(time): videoRef.current is the <video> StreamVideo renders
jumpVideoTime(time) ==
  viewer' = [viewer EXCEPT
    !.video.lecture = [currentTime |-> time, paused |-> FALSE]]

\* a click on the i-th sentence of the transcript
ClickSentence(i) ==
  /\ i \in 1..Len(lectureTranscripts.transcriptData.sentences)
  /\ jumpVideoTime(DivideBy1000(
       Num(lectureTranscripts.transcriptData.sentences[i].begin_time)))
  /\ UNCHANGED <<chatVars, convertVars>>

\* a click on the i-th section
ClickSection(i) ==
  /\ i \in 1..Len(lectureSections.sections.items)
  /\ jumpVideoTime(DivideBy1000(
       Num(lectureSections.sections.items[i].begin_time)))
  /\ UNCHANGED <<chatVars, convertVars>>

\* a click on the i-th thumbnail of ThumbnailScroller
ClickThumbnail(i) ==
  /\ i \in 1..Len(lecture.thumbnails)
  /\ jumpVideoTime(Num(lecture.thumbnails[i].timeSecond))
  /\ UNCHANGED <<chatVars, convertVars>>

\* no viewer is mounted: none of the components' state exists
ViewerIdle == viewer = NULL

\* the viewers right after they are mounted, with the Sections tab opened:
\* every effect has run up to its await
ViewerMounted ==
  \E th \in ThumbnailSets, se \in SentenceSets, sc \in SectionSets :
    viewer = [playGround |-> PlayGroundInitial,
              lecture |-> LectureInitial,
              lectureTranscripts |-> LectureTranscriptsInitial,
              lectureSections |-> LectureSectionsInitial,
              video |-> VideoInitial,
              viewerReqs |-> ViewerRequests,
              viewerSrv |-> [video_url |-> VideoUrl, thumbnails |-> th,
                             sentences |-> se, sections |-> sc]]

----------------------------------------------------------------------------
\* convertHttpResponseToMessage, with JSON.parse on the texts made of
\* brackets, commas, digits and blanks.

JsonChars == {"[", "]", ",", "1", "2", " "}
JsonDigits == {"1", "2"}

RECURSIVE JsonTexts(_)
\* the texts of length n
JsonTexts(n) ==
  IF n = 0 THEN {<<>>}
  ELSE {Append(t, c) : t \in JsonTexts(n - 1), c \in JsonChars}

RECURSIVE SkipWs(_, _)
\* the first position from i on that holds no blank
SkipWs(s, i) == IF i <= Len(s) /\ s[i] = " " THEN SkipWs(s, i + 1) ELSE i

RECURSIVE NumberEnd(_, _)
\* the first position from i on that holds no digit
NumberEnd(s, i) ==
  IF i <= Len(s) /\ s[i] \in JsonDigits THEN NumberEnd(s, i + 1) ELSE i

RECURSIVE JoinItems(_)
\* the texts of the elements of an array, separated by commas
JoinItems(items) ==
  IF items = <<>> THEN <<>>
  ELSE IF Len(items) = 1 THEN items[1]
  ELSE items[1] \o <<",">> \o JoinItems(Tail(items))

\* JSON.parse throws a SyntaxError
JsonSyntaxError ==
  [ok |-> FALSE, next |-> 0, isArray |-> FALSE, text |-> <<>>, items |-> <<>>]

\* a parsed value: text is the value written without blanks, items the
\* elements of an array (each written without blanks), next the position
\* behind the value
JsonValue(next, isArray, text, items) ==
  [ok |-> TRUE, next |-> next, isArray |-> isArray, text |-> text,
   items |-> items]

RECURSIVE ParseValue(_, _), ParseItems(_, _, _)
\* the JSON value that starts at position i of s: a number or an array
ParseValue(s, i) ==
  IF i > Len(s) THEN JsonSyntaxError
  ELSE IF s[i] \in JsonDigits
  THEN LET j == NumberEnd(s, i)
       IN JsonValue(j, FALSE, SubSeq(s, i, j - 1), <<>>)
  ELSE IF s[i] = "["
  THEN LET j == SkipWs(s, i + 1)
       IN IF j <= Len(s) /\ s[j] = "]"
          THEN JsonValue(j + 1, TRUE, <<"[", "]">>, <<>>)
          ELSE ParseItems(s, j, <<>>)
  ELSE JsonSyntaxError

\* the elements of an array from position i of s on, behind the elements acc
ParseItems(s, i, acc) ==
  LET v == ParseValue(s, i)
  IN IF ~v.ok THEN JsonSyntaxError
     ELSE LET j == SkipWs(s, v.next)
              items == Append(acc, v.text)
          IN IF j > Len(s) THEN JsonSyntaxError
             ELSE IF s[j] = ","
             THEN ParseItems(s, SkipWs(s, j + 1), items)
             ELSE IF s[j] = "]"
             THEN JsonValue(j + 1, TRUE,
                            <<"[">> \o JoinItems(items) \o <<"]">>, items)
             ELSE JsonSyntaxError

\* JSON.parse(s): one value, blanks around it allowed, nothing behind it
JSONParse(s) ==
  LET v == ParseValue(s, SkipWs(s, 1))
  IN IF v.ok /\ SkipWs(s, v.next) > Len(s) THEN v ELSE JsonSyntaxError

\* a converted Message; hasThinkingProcess tells whether the object has the
\* optional field, threw whether the call ended with an exception
ConvertedMessage(h, hasThinkingProcess, thinkingProcess, threw) ==
  [id |-> h.id, sender |-> h.sender, content |-> h.content,
   timestamp |-> h.timestamp, hasThinkingProcess |-> hasThinkingProcess,
   thinkingProcess |-> thinkingProcess, threw |-> threw]

\* a variant of convertHttpResponseToMessage without the Array.isArray test
convertHttpResponseToMessageAnyJson(response) ==
  LET tp == response.thinking_process
      parsed == JSONParse(tp.text)
  IN IF tp.present /\ tp.text # <<>> /\ parsed.ok
     THEN ConvertedMessage(response, TRUE, parsed.items, FALSE)
     ELSE ConvertedMessage(response, FALSE, <<>>, FALSE)

\* convertHttpResponseToMessage: the basic mapping, then thinking_process
\* (when truthy) through JSON.parse inside try/catch, kept when it is an array
convertHttpResponseToMessage(response) ==
  LET tp == response.thinking_process
      parsed == JSONParse(tp.text)
  IN IF tp.present /\ tp.text # <<>> /\ parsed.ok /\ parsed.isArray
     THEN ConvertedMessage(response, TRUE, parsed.items, FALSE)
     ELSE ConvertedMessage(response, FALSE, <<>>, FALSE)

\* the responses given to the function: two that differ in every copied
\* field, each with thinking_process absent or any text up to MaxJsonLen
HttpResponses ==
  {[id |-> ServerId(b), sender |-> IF b = 1 THEN "bot" ELSE "user",
    content |-> IF b = 1 THEN BotReply ELSE <<"h">>, timestamp |-> b,
    thinking_process |-> tp] :
     b \in {1, 2},
     tp \in {[present |-> FALSE, text |-> <<>>]} \cup
            {[present |-> TRUE, text |-> t] :
               t \in UNION {JsonTexts(n) : n \in 0..MaxJsonLen}}}

\* the function is called on httpResponse
Convert ==
  /\ convertedMessage = <<>>
  /\ conversion' = [conversion EXCEPT
       !.convertedMessage = <<convertHttpResponseToMessage(httpResponse)>>]
  /\ UNCHANGED <<chatVars, viewerVars>>

\* the MessageHttpResponse the backend sends for a stored message m; the
\* thread model leaves timestamp and thinking_process out of account
StoredResponse(m) ==
  [id |-> m.id, sender |-> m.sender, content |-> m.content, timestamp |-> 0,
   thinking_process |-> [present |-> FALSE, text |-> <<>>]]

\* the function is not called
ConvertIdle == conversion = NULL

----------------------------------------------------------------------------
\* ChatPanel.

\* all_messages.map(msg => convertHttpResponseToMessage(msg)): of each
\* converted message the thread keeps id, sender and content
ConvertAll(data) ==
  [i \in 1..Len(data) |->
     LET m == convertHttpResponseToMessage(StoredResponse(data[i]))
     IN Message(m.id, m.sender, m.content, data[i].chat)]

\* the synthetic bot message of fetchMessages' catch
FetchFailedMessage(t, c) == Message(FailedId(t), "bot", FetchFailedText, c)

\* the synthetic bot message of handleSend's catch
SendFailedMessage(t, c) == Message(FailedId(t), "bot", SendFailedText, c)

\* a variant of SendGuard that does not trim the input
SendGuardUntrimmed ==
  ~(inputText = <<>> \/ currentChatId = NULL \/ isLoading)

\* disabled of the Submit button:
\* isLoading || !inputText.trim() || !currentChatId
SubmitDisabled ==
  isLoading \/ Trim(inputText) = <<>> \/ currentChatId = NULL

\* handleSend's guard: if (!inputText.trim() || !currentChatId || isLoading) return
SendGuard == ~(Trim(inputText) = <<>> \/ currentChatId = NULL \/ isLoading)

\* a variant of OptimisticMessages that puts userMessage first
OptimisticMessagesFirst(prev, temp, text, c) ==
  <<Message(temp, "user", text, c)>> \o prev

\* setMessages(prev => [...prev, userMessage])
OptimisticMessages(prev, temp, text, c) ==
  Append(prev, Message(temp, "user", text, c))

\* a variant of ReconciledMessages without lastMessage
ReconciledMessagesBotOnly(cap, temp, text, c, uid, bid, content) ==
  Filter(cap, temp) \o <<Message(ServerId(bid), "bot", content, c)>>

\* newMessages of handleSend's success path: cap is the messages of the
\* render handleSend was called in
ReconciledMessages(cap, temp, text, c, uid, bid, content) ==
  Filter(cap, temp) \o <<Message(ServerId(uid), "user", text, c),
                         Message(ServerId(bid), "bot", content, c)>>

\* a variant of SendFailureMessages that replaces the list
SendFailureMessagesReplacing(prev, t, c) == <<SendFailedMessage(t, c)>>

\* setMessages(prev => [...prev, error message]) of handleSend's catch
SendFailureMessages(prev, t, c) == Append(prev, SendFailedMessage(t, c))

\* messages.filter(msg => msg.id !== messageId) of handleDeleteMessageClick
MessagesAfterDelete(cap, mid) == Filter(cap, mid)

\* fetchMessages after its await
FetchMessagesDone(r, o) ==
  /\ NoModal
  /\ r \in BagToSet(fetchReqs) /\ Delivered(r, o)
  /\ fetchReqs' = Take(fetchReqs, r)
  /\ IF o = "ok"
     THEN /\ messages' = ConvertAll(r.data)
          /\ reloading' = reloading
     ELSE /\ messages' = <<FetchFailedMessage(now, r.chat)>>
          \* window.location.href = "/" on a non-OK status
          /\ reloading' = (reloading \/ o = "notok")
  /\ UNCHANGED <<pageVars, alert, inputText, isLoading, listReqs,
                 newReqs, delChatReqs, sendReqs, delMsgReqs, srvVars, now, gestures, chatEdits,
                 restVars>>

\* handleInputChange
HandleInputChange(v) ==
  /\ NoModal
  /\ Gesture
  /\ v \in InputTexts /\ v # inputText
  /\ inputText' = v
  /\ UNCHANGED <<pageVars, dialogVars, messages, isLoading, netVars, srvVars,
                 now, failures, chatEdits,
                 restVars>>

\* the request handleSend issues at time t: it keeps the render's messages,
\* inputText and currentChatId, and carries the backend's answer
SendRequest(t) ==
  [chat |-> currentChatId, temp |-> TempId(t), text |-> inputText,
   cap |-> messages, srv |-> Answer(ChatExists(currentChatId)),
   uid |-> IF ChatExists(currentChatId) THEN nextMsg ELSE 0,
   bid |-> IF ChatExists(currentChatId) THEN nextMsg + 1 ELSE 0,
   content |-> IF ChatExists(currentChatId) THEN BotReply ELSE <<>>]

\* handleSend up to its await (button or Enter key); the keystroke reaches
\* the handler at least one millisecond after the previous handler ran
HandleSend ==
  /\ NoModal
  /\ Gesture
  /\ SendGuard
  /\ now < MaxTime
  /\ now' = now + 1
  /\ messages' = OptimisticMessages(messages, TempId(now'), inputText,
                                    currentChatId)
  /\ inputText' = <<>>
  /\ isLoading' = TRUE
  /\ sendReqs' = Put(sendReqs, SendRequest(now'))
  /\ IF ChatExists(currentChatId)
     THEN /\ srvMsgs' = [srvMsgs EXCEPT ![currentChatId] = @ \o
               <<Message(ServerId(nextMsg), "user", inputText, currentChatId),
                 Message(ServerId(nextMsg + 1), "bot", BotReply,
                         currentChatId)>>]
          /\ nextMsg' = nextMsg + 2
     ELSE UNCHANGED <<srvMsgs, nextMsg>>
  /\ UNCHANGED <<pageVars, dialogVars, listReqs, newReqs, delChatReqs,
                 fetchReqs, delMsgReqs, srvChats, nextChat, failures, chatEdits,
                 restVars>>

\* a variant of HandleSendDone whose catch does not reach setIsLoading(false)
HandleSendDoneNoFinally(r, o) ==
  /\ NoModal
  /\ r \in BagToSet(sendReqs) /\ Delivered(r, o)
  /\ sendReqs' = Take(sendReqs, r)
  /\ IF o = "ok"
     THEN messages' = ReconciledMessages(r.cap, r.temp, r.text, r.chat,
                                         r.uid, r.bid, r.content)
     ELSE messages' = SendFailureMessages(messages, now, r.chat)
  /\ isLoading' = (o # "ok")
  /\ UNCHANGED <<pageVars, dialogVars, inputText, listReqs, newReqs,
                 delChatReqs, fetchReqs, delMsgReqs, srvVars, now, gestures, chatEdits,
                 restVars>>

\* handleSend after its await
HandleSendDone(r, o) ==
  /\ NoModal
  /\ r \in BagToSet(sendReqs) /\ Delivered(r, o)
  /\ sendReqs' = Take(sendReqs, r)
  /\ IF o = "ok"
     THEN messages' = ReconciledMessages(r.cap, r.temp, r.text, r.chat,
                                         r.uid, r.bid, r.content)
     ELSE messages' = SendFailureMessages(messages, now, r.chat)
  /\ isLoading' = FALSE
  /\ UNCHANGED <<pageVars, dialogVars, inputText, listReqs, newReqs,
                 delChatReqs, fetchReqs, delMsgReqs, srvVars, now, gestures, chatEdits,
                 restVars>>

\* the backend answers a DELETE with OK only for a message it holds
MessageExists(mid) == \E c \in ChatIds : \E i \in 1..Len(srvMsgs[c]) :
                        srvMsgs[c][i].id = mid

\* the request handleDeleteMessageClick issues for message id mid: it keeps
\* the render's messages
DeleteMessageRequest(mid) ==
  [messageId |-> mid, cap |-> messages, srv |-> Answer(MessageExists(mid))]

\* handleDeleteMessageClick up to its await: the delete button of the i-th
\* displayed message
HandleDeleteMessageClick(i) ==
  /\ NoModal
  /\ Gesture
  /\ i \in 1..Len(messages)
  /\ delMsgReqs' = Put(delMsgReqs, DeleteMessageRequest(messages[i].id))
  /\ srvMsgs' = [c \in ChatIds |-> Filter(srvMsgs[c], messages[i].id)]
  /\ UNCHANGED <<pageVars, dialogVars, panelVars, listReqs, newReqs,
                 delChatReqs, fetchReqs, sendReqs, srvChats, nextChat,
                 nextMsg, now, failures, chatEdits,
                 restVars>>

\* handleDeleteMessageClick after its await
HandleDeleteMessageClickDone(r, o) ==
  /\ NoModal
  /\ r \in BagToSet(delMsgReqs) /\ Delivered(r, o)
  /\ delMsgReqs' = Take(delMsgReqs, r)
  /\ IF o = "ok"
     THEN /\ messages' = MessagesAfterDelete(r.cap, r.messageId)
          /\ alert' = alert
     ELSE /\ alert' = "message"
          /\ messages' = messages
  /\ UNCHANGED <<pageVars, reloading, inputText, isLoading,
                 listReqs, newReqs, delChatReqs, fetchReqs, sendReqs,
                 srvVars, now, gestures, chatEdits,
                 restVars>>

----------------------------------------------------------------------------
\* The browser.

\* a client-made id carries the current value of Date.now()
Stamped(ms) == \E i \in 1..Len(ms) : IsFakeId(ms[i].id) /\ ms[i].id.n = now

\* some id the page holds was made in the current millisecond
NowUsed ==
  \/ Stamped(messages)
  \/ \E r \in BagToSet(sendReqs) : r.temp.n = now \/ Stamped(r.cap)
  \/ \E r \in BagToSet(delMsgReqs) :
       (IsFakeId(r.messageId) /\ r.messageId.n = now) \/ Stamped(r.cap)

\* a millisecond passes (a millisecond in which no id was made leaves no
\* trace, so the clock is advanced only past those that did)
Tick ==
  /\ now < MaxTime
  /\ NowUsed
  /\ now' = now + 1
  /\ UNCHANGED <<pageVars, dialogVars, panelVars, netVars, srvVars, gestures, failures, chatEdits,
                 restVars>>

\* the state of the page right after <App/> is mounted at route r0: the
\* initial values of useState and the first run of the two effects
Mounted(r0) ==
  [currentChatId |-> r0,
   listReqs |-> SetToBag({ListRequest(r0)}),
   fetchReqs |-> IF r0 # NULL THEN SetToBag({FetchRequest(r0)}) ELSE EmptyBag]

\* the navigation started by window.location.href = "/" completes: the page
\* is loaded anew, and the callbacks of the old page never run
PageReload ==
  /\ reloading
  /\ currentChatId' = Mounted(NULL).currentChatId
  /\ listReqs' = Mounted(NULL).listReqs
  /\ fetchReqs' = Mounted(NULL).fetchReqs
  /\ availableChats' = <<>>
  /\ backendStatus' = DefaultBackendStatus
  /\ route' = NULL
  /\ alert' = "none" /\ reloading' = FALSE
  /\ messages' = <<>> /\ inputText' = <<>> /\ isLoading' = FALSE
  /\ newReqs' = EmptyBag /\ delChatReqs' = EmptyBag
  /\ sendReqs' = EmptyBag /\ delMsgReqs' = EmptyBag
  /\ UNCHANGED <<srvVars, now, gestures, failures, chatEdits,
                 restVars>>

----------------------------------------------------------------------------

\* the backend and the budgets when the page is first opened
ServerInit ==
  /\ srvChats = InitSrvChats
  /\ srvMsgs = InitSrvMsgs
  /\ nextChat = Len(InitSrvChats) + 1
  /\ nextMsg = InitNextMsg
  /\ now = 0
  /\ gestures = 0
  /\ failures = 0
  /\ chatEdits = 0

\* the chat page is not open
ChatIdle ==
  /\ ServerInit
  /\ route = NULL /\ currentChatId = NULL
  /\ listReqs = EmptyBag /\ fetchReqs = EmptyBag
  /\ availableChats = <<>>
  /\ backendStatus = DefaultBackendStatus
  /\ alert = "none" /\ reloading = FALSE
  /\ messages = <<>> /\ inputText = <<>> /\ isLoading = FALSE
  /\ newReqs = EmptyBag /\ delChatReqs = EmptyBag
  /\ sendReqs = EmptyBag /\ delMsgReqs = EmptyBag

Init ==
  /\ ServerInit
  /\ ViewerIdle /\ ConvertIdle
  /\ \E r0 \in InitRoutes :
       /\ route = r0
       /\ currentChatId = Mounted(r0).currentChatId
       /\ listReqs = Mounted(r0).listReqs
       /\ fetchReqs = Mounted(r0).fetchReqs
  /\ availableChats = <<>>
  /\ backendStatus = DefaultBackendStatus
  /\ alert = "none" /\ reloading = FALSE
  /\ messages = <<>> /\ inputText = <<>> /\ isLoading = FALSE
  /\ newReqs = EmptyBag /\ delChatReqs = EmptyBag
  /\ sendReqs = EmptyBag /\ delMsgReqs = EmptyBag

Next ==
  \/ \E c \in ChatIds : HandleSelectChat(c)
  \/ \E r \in BagToSet(listReqs) : \E o \in Outcomes :
       FetchChatHistoryDone(r, o)
  \/ HandleNewChat
  \/ \E r \in BagToSet(newReqs) : \E o \in Outcomes :
       HandleNewChatDone(r, o)
  \/ \E c \in ChatIds : \E confirmed \in BOOLEAN :
       HandleDeleteClick(c, confirmed)
  \/ \E r \in BagToSet(delChatReqs) : \E o \in Outcomes :
       HandleDeleteClickDone(r, o)
  \/ DismissAlert
  \/ \E r \in BagToSet(fetchReqs) : \E o \in Outcomes :
       FetchMessagesDone(r, o)
  \/ \E v \in InputTexts : HandleInputChange(v)
  \/ HandleSend
  \/ \E r \in BagToSet(sendReqs) : \E o \in Outcomes : HandleSendDone(r, o)
  \/ \E i \in 1..Len(messages) : HandleDeleteMessageClick(i)
  \/ \E r \in BagToSet(delMsgReqs) : \E o \in Outcomes :
       HandleDeleteMessageClickDone(r, o)
  \/ Tick
  \/ PageReload

Spec == Init /\ [][Next]_vars

\* the video viewers alone
InitViewer == ChatIdle /\ ConvertIdle /\ ViewerMounted

NextViewer ==
  \/ \E ov, ot \in Outcomes : \E jv, jt \in BOOLEAN :
       PlayGroundFetchDataDone(ov, ot, jv, jt)
  \/ PlayGroundLoadedMetadata
  \/ \E i \in 1..Len(playGround.videoData.thumbnails) :
       PlayGroundHandleSeek(i)
  \/ \E o \in Outcomes : FetchVideoSourceDone(o)
  \/ \E o \in Outcomes : FetchSlidesThumbnailsDone(o)
  \/ \E o \in Outcomes : FetchTranscriptsDone(o)
  \/ \E o \in Outcomes : FetchSectionsDone(o)
  \/ \E i \in 1..Len(lectureTranscripts.transcriptData.sentences) :
       ClickSentence(i)
  \/ \E i \in 1..Len(lectureSections.sections.items) : ClickSection(i)
  \/ \E i \in 1..Len(lecture.thumbnails) : ClickThumbnail(i)

SpecViewer == InitViewer /\ [][NextViewer]_vars

\* convertHttpResponseToMessage alone, on every response of HttpResponses
InitConvert ==
  /\ ChatIdle /\ ViewerIdle
  /\ conversion \in [httpResponse : HttpResponses, convertedMessage : {<<>>}]

NextConvert == Convert

SpecConvert == InitConvert /\ [][NextConvert]_vars

\* ChatPanel with the chat list left alone: the user selects chats, types,
\* sends and deletes messages, and never creates or deletes a chat
NextPanel ==
  \/ \E c \in ChatIds : HandleSelectChat(c)
  \/ \E r \in BagToSet(listReqs) : \E o \in Outcomes :
       FetchChatHistoryDone(r, o)
  \/ DismissAlert
  \/ \E r \in BagToSet(fetchReqs) : \E o \in Outcomes :
       FetchMessagesDone(r, o)
  \/ \E v \in InputTexts : HandleInputChange(v)
  \/ HandleSend
  \/ \E r \in BagToSet(sendReqs) : \E o \in Outcomes : HandleSendDone(r, o)
  \/ \E i \in 1..Len(messages) : HandleDeleteMessageClick(i)
  \/ \E r \in BagToSet(delMsgReqs) : \E o \in Outcomes :
       HandleDeleteMessageClickDone(r, o)
  \/ Tick
  \/ PageReload

SpecPanel == Init /\ [][NextPanel]_vars

\* ChatPage and Sidebar with the thread left alone: the user selects,
\* creates and deletes chats, and never types, sends or deletes a message
NextPage ==
  \/ \E c \in ChatIds : HandleSelectChat(c)
  \/ \E r \in BagToSet(listReqs) : \E o \in Outcomes :
       FetchChatHistoryDone(r, o)
  \/ HandleNewChat
  \/ \E r \in BagToSet(newReqs) : \E o \in Outcomes :
       HandleNewChatDone(r, o)
  \/ \E c \in ChatIds : \E confirmed \in BOOLEAN :
       HandleDeleteClick(c, confirmed)
  \/ \E r \in BagToSet(delChatReqs) : \E o \in Outcomes :
       HandleDeleteClickDone(r, o)
  \/ DismissAlert
  \/ \E r \in BagToSet(fetchReqs) : \E o \in Outcomes :
       FetchMessagesDone(r, o)
  \/ PageReload

SpecPage == Init /\ [][NextPage]_vars

----------------------------------------------------------------------------
\* The properties.

Failed == {"notok", "neterr"}

\* C1: when the POST of a send succeeds, the list handleSend sets holds no
\* message with the send's temporary id, and it ends with the user message
\* (the server's user_message_id, the text as typed) immediately followed by
\* the bot reply (the server's id).
C1_SendSuccessReconciles ==
  [][\A r \in BagToSet(sendReqs) : HandleSendDone(r, "ok") =>
       LET n == Len(messages') IN
       /\ \A i \in 1..n : messages'[i].id # r.temp
       /\ n >= 2
       /\ messages'[n - 1].id = ServerId(r.uid)
       /\ messages'[n - 1].sender = "user"
       /\ messages'[n - 1].content = r.text
       /\ messages'[n].id = ServerId(r.bid)
       /\ messages'[n].sender = "bot"]_vars

\* a send has been answered with OK: two gestures (typing, sending), no
\* request of the panel left, and the thread ends with the pair
C1_Witness ==
  /\ gestures = 2 /\ failures = 0
  /\ sendReqs = EmptyBag /\ fetchReqs = EmptyBag
  /\ nextMsg = InitNextMsg + 2
  /\ Len(messages) = 3
  /\ messages[2].id = ServerId(InitNextMsg)
  /\ messages[2].sender = "user"
  /\ messages[3].id = ServerId(InitNextMsg + 1)
  /\ messages[3].sender = "bot"

\* C2: a handleSend that passes its guard appends the user message, with a
\* temporary id, at the end of the list while its request is in flight;
\* the same step clears the input and sets isLoading, and keeps the earlier
\* messages in their order.
C2_SendAppendsOptimistically ==
  [][HandleSend =>
       LET n == Len(messages') IN
       /\ n = Len(messages) + 1
       /\ SubSeq(messages', 1, n - 1) = messages
       /\ messages'[n].id.k = "FAKEID-TEMP-MESSAGE"
       /\ messages'[n].sender = "user"
       /\ messages'[n].content = inputText
       /\ \E r \in BagToSet(sendReqs') : r.temp = messages'[n].id
       /\ inputText' = <<>>
       /\ isLoading' = TRUE]_vars

\* a send is in flight behind an earlier message, the thread ending with its
\* temporary message
C2_Witness ==
  /\ Len(messages) >= 2
  /\ isLoading /\ inputText = <<>>
  /\ \E r \in BagToSet(sendReqs) : r.temp = messages[Len(messages)].id

\* C3: after a send whose request fails (network error or non-OK status) the
\* message with the send's temporary id is no longer in the list.
C3_FailedSendRolledBack ==
  [][\A r \in BagToSet(sendReqs) : \A o \in Failed : HandleSendDone(r, o) =>
       \A i \in 1..Len(messages') : messages'[i].id # r.temp]_vars

\* C4: the ids of the displayed messages are pairwise distinct.
C4_DistinctIds ==
  \A i, j \in 1..Len(messages) : i # j => messages[i].id # messages[j].id

\* C5: no request of ChatPanel carries a FAKEID-TEMP-MESSAGE or
\* FAKEID-MESSAGE-FAILED id (the POST of a send carries no id at all; the
\* DELETE of a message carries the id of the message clicked).
C5_NoFakeIdSent ==
  \A r \in BagToSet(delMsgReqs) : ~IsFakeId(r.messageId)
\* C6: once every request has settled, every displayed message was fetched
\* for, or sent in, the chat that is selected.
C6_ThreadOfCurrentChat ==
  (/\ listReqs = EmptyBag /\ newReqs = EmptyBag /\ delChatReqs = EmptyBag
   /\ fetchReqs = EmptyBag /\ sendReqs = EmptyBag /\ delMsgReqs = EmptyBag
   /\ NoModal /\ currentChatId # NULL)
  => \A i \in 1..Len(messages) : messages[i].chat = currentChatId

\* C7 as stated: a component never has more than one request outstanding.
C7_OneOutstanding ==
  /\ BagCardinality(fetchReqs) + BagCardinality(sendReqs)
       + BagCardinality(delMsgReqs) <= 1
  /\ BagCardinality(listReqs) + BagCardinality(newReqs) <= 1

\* C7: a step (a gesture, a response, a mount) issues at most one new
\* request per component: ChatPanel (message fetch, send, message delete),
\* ChatPage (chat list, new chat), Sidebar (chat delete).
C7_OneNewRequestPerStep ==
  [][/\ BagCardinality(fetchReqs' (-) fetchReqs)
          + BagCardinality(sendReqs' (-) sendReqs)
          + BagCardinality(delMsgReqs' (-) delMsgReqs) <= 1
     /\ BagCardinality(listReqs' (-) listReqs)
          + BagCardinality(newReqs' (-) newReqs) <= 1
     /\ BagCardinality(delChatReqs' (-) delChatReqs) <= 1]_vars

\* a send was issued while a message fetch was outstanding: ChatPanel has
\* two requests in flight, each issued by a step of its own
C7_Witness ==
  /\ fetchReqs # EmptyBag /\ sendReqs # EmptyBag
  /\ isLoading

\* C8: every failed request (send, message fetch, message delete, chat
\* delete, new chat, chat list) leaves a synthetic bot message at the end of
\* the thread or an alert box on the screen.
C8_EveryFailureShown ==
  [][\A o \in Failed :
       LET n == Len(messages')
           Shown == \/ alert' # "none"
                    \/ /\ n > 0
                       /\ messages'[n].id = FailedId(now)
                       /\ messages'[n].sender = "bot"
       IN /\ \A r \in BagToSet(sendReqs) : HandleSendDone(r, o) => Shown
          /\ \A r \in BagToSet(fetchReqs) : FetchMessagesDone(r, o) => Shown
          /\ \A r \in BagToSet(delMsgReqs) :
               HandleDeleteMessageClickDone(r, o) => Shown
          /\ \A r \in BagToSet(delChatReqs) :
               HandleDeleteClickDone(r, o) => Shown
          /\ \A r \in BagToSet(newReqs) : HandleNewChatDone(r, o) => Shown
          /\ \A r \in BagToSet(listReqs) : FetchChatHistoryDone(r, o) => Shown
    ]_vars

\* C9: handleDeleteClick removes a chat from the list only in the step that
\* delivers OK to a DELETE, and a DELETE is issued only by a confirmed click;
\* a declined click, a confirmed click before its response, and a failed or
\* non-OK response leave the list and the selection unchanged, and the
\* failure opens the alert box.
C9_ChatDeleteNeedsConfirmAndOk ==
  [][/\ \A c \in ChatIds :
          HandleDeleteClick(c, FALSE) =>
            UNCHANGED <<availableChats, currentChatId, delChatReqs>>
     /\ \A c \in ChatIds :
          HandleDeleteClick(c, TRUE) =>
            UNCHANGED <<availableChats, currentChatId>>
     /\ BagCardinality(delChatReqs' (-) delChatReqs) > 0 =>
          \E c \in ChatIds : HandleDeleteClick(c, TRUE)
     /\ \A r \in BagToSet(delChatReqs) :
          /\ HandleDeleteClickDone(r, "ok") =>
               availableChats' = FilterChat(availableChats, r.chatId)
          /\ \A o \in Failed :
               HandleDeleteClickDone(r, o) =>
                 /\ UNCHANGED <<availableChats, currentChatId>>
                 /\ alert' = "chat"]_vars

\* a confirmed delete has failed: the alert box is open and both chats are
\* still listed
C9_Witness ==
  /\ alert = "chat"
  /\ chatEdits = 1 /\ delChatReqs = EmptyBag
  /\ Len(availableChats) = Len(InitSrvChats)
  /\ currentChatId # NULL

\* C10: a new-chat request answered OK puts the new chat first in the list,
\* selects it and sets the route to it; a failed one leaves the list and the
\* selection unchanged.
C10_NewChat ==
  [][\A r \in BagToSet(newReqs) :
       /\ HandleNewChatDone(r, "ok") =>
            /\ availableChats' = <<r.id>> \o availableChats
            /\ currentChatId' = r.id
            /\ route' = r.id
       /\ \A o \in Failed :
            HandleNewChatDone(r, o) =>
              UNCHANGED <<availableChats, currentChatId, route>>]_vars

\* a new chat has been created in front of the chats already listed, and is
\* the selected chat
C10_Witness ==
  /\ Len(availableChats) > 1
  /\ availableChats[1] = nextChat - 1
  /\ nextChat > Len(InitSrvChats) + 1
  /\ currentChatId = availableChats[1]
  /\ route = currentChatId

\* a text that is the JSON text of an array: JSON.parse accepts it and its
\* first character that is no blank is the opening bracket
IsJsonArrayText(t) ==
  /\ t # <<>>
  /\ JSONParse(t).ok
  /\ SkipWs(t, 1) <= Len(t) /\ t[SkipWs(t, 1)] = "["

C12_ViewerKeepsSuccessfulFetch ==
  [][/\ \A ot \in Failed : \A jt \in BOOLEAN :
          PlayGroundFetchDataDone("ok", ot, TRUE, jt) =>
            /\ playGround'.videoData.present
            /\ playGround'.videoData.video_url = viewerSrv.video_url
     /\ \A ov \in Failed : \A jv \in BOOLEAN :
          PlayGroundFetchDataDone(ov, "ok", jv, TRUE) =>
            /\ playGround'.videoData.present
            /\ playGround'.videoData.thumbnailsIsArray
            /\ playGround'.videoData.thumbnails = viewerSrv.thumbnails
     /\ FetchVideoSourceDone("ok") => lecture'.videoUrl = viewerSrv.video_url
     /\ FetchSlidesThumbnailsDone("ok") =>
          lecture'.thumbnails = transformResponse(viewerSrv.thumbnails)
     /\ \A o \in Failed :
          /\ FetchVideoSourceDone(o) => lecture'.thumbnails = lecture.thumbnails
          /\ FetchSlidesThumbnailsDone(o) => lecture'.videoUrl = lecture.videoUrl
    ]_vars

\* C13: a click on a sentence, a section or a thumbnail seeks the video to
\* the begin time of the item in seconds: a sentence's begin_time is in
\* milliseconds, a section's begin_time and a thumbnail's time_second are in
\* seconds.
C13_ClickSeeksToBeginTime ==
  [][/\ \A i \in 1..Len(lectureTranscripts.transcriptData.sentences) :
          ClickSentence(i) =>
            video'.lecture.currentTime * MsPerSecond =
              Num(lectureTranscripts.transcriptData.sentences[i].begin_time)
     /\ \A i \in 1..Len(lectureSections.sections.items) :
          ClickSection(i) =>
            video'.lecture.currentTime =
              Num(lectureSections.sections.items[i].begin_time)
     /\ \A i \in 1..Len(lecture.thumbnails) :
          ClickThumbnail(i) =>
            video'.lecture.currentTime = Num(lecture.thumbnails[i].timeSecond)
    ]_vars

\* C14: the section list displayed is the one the backend returned for the
\* videoId, and a response with a failing HTTP status yields no list.
C14_SectionsFromBackend ==
  [][/\ FetchSectionsDone("ok") =>
          /\ lectureSections'.sections.present
          /\ lectureSections'.sections.items = viewerSrv.sections
     /\ FetchSectionsDone("notok") => ~lectureSections'.sections.present
    ]_vars


\* C15: a successful message delete removes exactly the deleted message from
\* the list displayed when the response arrives, every other message
\* displayed then remains; a failed delete leaves the list unchanged and
\* raises the alert.
C15_DeleteRemovesExactly ==
  [][\A r \in BagToSet(delMsgReqs) :
       /\ HandleDeleteMessageClickDone(r, "ok") =>
            messages' = Filter(messages, r.messageId)
       /\ \A o \in Failed :
            HandleDeleteMessageClickDone(r, o) =>
              messages' = messages /\ alert' = "message"
    ]_vars

AllSettled ==
  /\ listReqs = EmptyBag /\ newReqs = EmptyBag /\ delChatReqs = EmptyBag
  /\ fetchReqs = EmptyBag /\ sendReqs = EmptyBag /\ delMsgReqs = EmptyBag

\* C18: when currentChatId is null and every request has settled, the message
\* list is empty.
C18_ClearedWhenNoChat ==
  (currentChatId = NULL /\ AllSettled) => messages = <<>>

\* C19: a failed message fetch replaces the list by exactly one synthetic bot
\* message, and a non-OK status also starts the redirect to "/"; a failed
\* send appends exactly one synthetic bot message and issues no request.
C19_FailuresShownOnce ==
  [][/\ \A r \in BagToSet(fetchReqs) : \A o \in Failed :
          FetchMessagesDone(r, o) =>
            /\ Len(messages') = 1
            /\ IsFakeId(messages'[1].id) /\ messages'[1].sender = "bot"
            /\ messages'[1].content = FetchFailedText
            /\ o = "notok" => reloading'
            /\ fetchReqs' = Take(fetchReqs, r)
     /\ \A r \in BagToSet(sendReqs) : \A o \in Failed :
          HandleSendDone(r, o) =>
            /\ Len(messages') = Len(messages) + 1
            /\ SubSeq(messages', 1, Len(messages)) = messages
            /\ IsFakeId(messages'[Len(messages')].id)
            /\ messages'[Len(messages')].sender = "bot"
            /\ messages'[Len(messages')].content = SendFailedText
            /\ sendReqs' = Take(sendReqs, r)
            /\ fetchReqs' = fetchReqs
    ]_vars

\* after a failed send the temporary message is followed by one error message
C19_Witness ==
  /\ sendReqs = EmptyBag /\ Len(messages) >= 2
  /\ messages[Len(messages)].content = SendFailedText
  /\ messages[Len(messages) - 1].sender = "user"

\* C20: when the chat whose delete succeeded is the current one,
\* currentChatId becomes null and the route "/"; when it is not the current
\* one, currentChatId stays as it is.
C20_DeleteChatSelection ==
  [][\A r \in BagToSet(delChatReqs) :
       HandleDeleteClickDone(r, "ok") =>
         IF currentChatId = r.chatId
         THEN currentChatId' = NULL /\ route' = NULL
         ELSE currentChatId' = currentChatId
    ]_vars

\* C21: a chat-list response with status OK makes availableChats the list
\* returned; when that list is not empty and no chat is selected its first
\* chat becomes the current chat, otherwise currentChatId stays as it is.
C21_ListResponseSelectsFirst ==
  [][\A r \in BagToSet(listReqs) :
       FetchChatHistoryDone(r, "ok") =>
         /\ availableChats' = r.data
         /\ IF Len(r.data) > 0 /\ currentChatId = NULL
            THEN currentChatId' = r.data[1]
            ELSE currentChatId' = currentChatId
    ]_vars

\* C22: a chat-list response that failed empties availableChats and makes
\* backendStatus the status that is neither ok nor ready; currentChatId
\* stays as it is, and the step issues no chat-list request.
C22_ListFailure ==
  [][\A r \in BagToSet(listReqs) : \A o \in Failed :
       FetchChatHistoryDone(r, o) =>
         /\ availableChats' = <<>>
         /\ ~backendStatus'.ok /\ ~backendStatus'.ready
         /\ currentChatId' = currentChatId
         /\ listReqs' = Take(listReqs, r)
    ]_vars

\* a chat-list fetch has failed while a chat is selected, and no chat-list
\* request is in flight
C22_Witness ==
  /\ ~backendStatus.ok /\ ~backendStatus.ready
  /\ availableChats = <<>>
  /\ currentChatId # NULL
  /\ listReqs = EmptyBag

\* C23: a chat the user selected or created (the route is then the chat's)
\* stays the current chat when a chat-list response arrives, and a chat-list
\* response with status OK keeps every chat the user created, and the
\* backend still holds, in availableChats.
C23_ListResponseKeepsChoice ==
  [][\A r \in BagToSet(listReqs) : \A o \in Outcomes :
       FetchChatHistoryDone(r, o) =>
         /\ (currentChatId # NULL /\ route = currentChatId) =>
              currentChatId' = currentChatId
         /\ o = "ok" =>
              \A c \in Range(availableChats) :
                (c > Len(InitSrvChats) /\ c \in Range(srvChats)) =>
                  c \in Range(availableChats')
    ]_vars

\* C24: the ids of the chats in availableChats are pairwise distinct.
C24_DistinctChats ==
  \A i, j \in 1..Len(availableChats) :
    i # j => availableChats[i] # availableChats[j]

====
